---- MODULE Spec2Model ----
(***************************************************************************)
(* Voucher and loyalty engine of the WiFi captive-portal suite.            *)
(*                                                                         *)
(* The state is the content of the SQLite tables the engine reads and      *)
(* writes (vouchers, users, audit_log), the wall clock, and, for every     *)
(* request being served, the place it has reached in its handler together  *)
(* with the values it has read so far.  A handler is an async function:    *)
(* between two awaited database statements other requests may run, so a    *)
(* handler is one action per database statement whose result later code    *)
(* of the handler depends on.                                              *)
(***************************************************************************)
EXTENDS Integers, Sequences, FiniteSets, TLC

\* ------------------------------------------------------------------ bounds
MaxVouchers == 1     \* distinct codes in the vouchers table
MaxHours == 1        \* hours of wall-clock time observed
MaxVisits == 5       \* visit_count up to which visits are recorded
MaxTierVisits == 31  \* the same, for a customer's way through the tiers
MaxAuditDepth == 4   \* nested auditLog calls followed
MaxStaffVouchers == 2    \* staff WiFi vouchers in the vouchers table
MaxHalfDays == 3     \* half days of wall-clock time observed
MaxFailures == 11    \* login_failed events in the audit log
MaxOtherFailures == 1    \* those of them not from the origin under watch
MaxHalfHours == 2    \* half hours of wall-clock time observed while logins fail
MaxFaultyLogins == 1     \* login_failed events logged while statements are rejected
MaxRedemptions == 5      \* vouchers redeemed on one day
MaxCleanups == 1         \* audit_cleanup events in the audit log
MaxRetainedFailures == 2 \* login_failed events in the audit log while it is cleaned
MaxStaffLogins == 5      \* login attempts of staff members in the audit log
MaxTokenLogins == 4      \* the same, where the routes behind verifyToken are called

\* --------------------------------------------------------------- constants
MsPerHour == 3600000         \* 60 * 60 * 1000
LoyaltyRewardHours == 168    \* validity of a loyalty reward
SilverVisits == 5
GoldVisits == 15
PlatinumVisits == 30

NULL == 0

Procs == {"req1", "req2"}    \* requests served at the same time
Staff == {1, 2}              \* ids of rows of the staff table (1 is the default admin)
Managers == {1}              \* the staff rows whose role is manager or admin
Emails == {"ann@example.com"}    \* the addresses customers sign up with
RandomSuffixes == {"0A", "1B"}   \* hex suffixes the random source can yield

VoucherTypes == {"loyalty_reward", "premium_wifi", "staff_wifi", "other"}
CreateTypes == {"loyalty_reward", "premium_wifi"}   \* types given to createVoucher
ExpiresInHours == {0, 1}     \* validity windows given to createVoucher

\* Columns of the tables, as created by createTables.
VoucherColumns ==
    {"id", "user_id", "site_id", "code", "type", "title", "description", "value",
     "qr_code", "barcode", "status", "expires_at", "redeemed_at", "redeemed_by",
     "created_at"}
UserColumns ==
    {"id", "site_id", "email", "name", "date_of_birth", "phone", "marketing_consent",
     "visit_count", "loyalty_tier", "loyalty_points", "family_group_id", "created_at",
     "updated_at"}

\* A statement that names a column the table does not have is rejected by the
\* database: database.run rejects and the awaiting handler throws.
SqlColumnsExist(cols, table) == cols \subseteq table

VARIABLES
    now,        \* wall clock, seconds
    vouchers,   \* table vouchers: row i has id i
    users,      \* table users: row i has id i
    audit_log,  \* table audit_log, in insertion order
    pc,         \* pc[p]: where request slot p is in its handler
    req,        \* req[p]: the values the handler of p holds
    resp,       \* the answer most recently given to a caller
    staff,      \* table staff: row i has id i
    audit_fault,    \* the statement of auditLog the database rejects at present
    tokens      \* the staff ids for which a client holds a token

vars == <<now, vouchers, users, audit_log, pc, req, resp, staff, audit_fault, tokens>>

\* ------------------------------------------------------------ code generator
\* generateVoucherCode: the first two letters of the type, upper-cased, followed
\* by the hex form of random bytes.  A code is <<prefix, suffix>>.
TypePrefix(type) ==
    CASE type = "loyalty_reward" -> "LO"
      [] type = "premium_wifi" -> "PR"
      [] type = "staff_wifi" -> "ST"
      [] OTHER -> "OT"

generateVoucherCode(type, rnd) == <<TypePrefix(type), rnd>>

NoCode == <<"", "">>
Codes == {generateVoucherCode(t, r) : t \in CreateTypes, r \in RandomSuffixes}

\* ---------------------------------------------------------------- requests
NoDate == -1
NoReq ==
    [id |-> NULL, staff |-> NULL, uid |-> NULL, count |-> 0, tier |-> "", arg |-> "",
     consent |-> FALSE, manager |-> NULL, date |-> NoDate, mac |-> ""]
NoIp == ""

\* What a handler answers: the operation, its outcome, the HTTP status the route
\* gives it, and the voucher code and id it is about.
NoResp == [op |-> "none", outcome |-> "none", http |-> 0, code |-> NoCode, id |-> NULL]

Resp(op, outcome, http, code, id) ==
    [op |-> op, outcome |-> outcome, http |-> http, code |-> code, id |-> id]

\* ------------------------------------------------------------------- audit
MsPerSecond == 1000
HoursPerDay == 24
AbuseThreshold == 5          \* voucher redemptions that raise a voucher_abuse alert
BruteForceThreshold == 10    \* failed logins that raise a brute_force_attempt alert
TimeZoneOffsetHours == {-5, 0, 1}   \* offsets of the server's local time from UTC

\* The clock of the model counts whole seconds, the resolution of
\* CURRENT_TIMESTAMP; the code computes with the milliseconds of Date.
Hour == MsPerHour \div MsPerSecond
Day == HoursPerDay * Hour

\* CURRENT_TIMESTAMP, the default of created_at: UTC, whole seconds, written
\* "YYYY-MM-DD HH:MM:SS".
CurrentTimestamp(t) == t

UtcDate(t) == t \div Day

\* created_at > ?, with ? bound to Date.toISOString(), "YYYY-MM-DDTHH:MM:SS.sssZ".
\* Both are TEXT and are compared character by character: the dates decide, and
\* on equal dates the eleventh character does, where ' ' sorts before 'T'.
SqlCreatedAfter(created_at, iso) == UtcDate(created_at) > UtcDate(iso)

\* created_at < ?, with ? bound to Date.toISOString(): on equal dates the
\* eleventh character decides, ' ' before 'T', whatever the time of day.
SqlCreatedBefore(created_at, iso) == UtcDate(created_at) <= UtcDate(iso)

\* new Date(now.getFullYear(), now.getMonth(), now.getDate()): local midnight.
TodayStart(t, tz) == ((t + tz) \div Day) * Day - tz

AuditEntry(user_type, user_id, action, voucher_id, ip, alert_type, t) ==
    [user_type |-> user_type, user_id |-> user_id, action |-> action,
     voucher_id |-> voucher_id, ip_address |-> ip, alert_type |-> alert_type,
     created_at |-> CurrentTimestamp(t)]

\* Variant: the failed logins counted whatever their origin.
FailedLoginsAnyOrigin(log, ip, since) ==
    Cardinality({i \in DOMAIN log : /\ log[i].action = "login_failed"
                                    /\ SqlCreatedAfter(log[i].created_at, since)})

\* SELECT COUNT(*) FROM audit_log WHERE action = 'login_failed' AND
\* ip_address = ? AND created_at > ?
FailedLogins(log, ip, since) ==
    Cardinality({i \in DOMAIN log : /\ log[i].action = "login_failed"
                                    /\ log[i].ip_address = ip
                                    /\ SqlCreatedAfter(log[i].created_at, since)})

\* SELECT COUNT(*) FROM audit_log WHERE action = 'voucher_redeemed' AND
\* user_id = ? AND created_at > ?
RecentRedemptions(log, user_id, since) ==
    Cardinality({i \in DOMAIN log : /\ log[i].action = "voucher_redeemed"
                                    /\ log[i].user_id = user_id
                                    /\ SqlCreatedAfter(log[i].created_at, since)})

\* Variant: the rules applied to security_alert events as well, so that
\* recording an alert raises the alert again.
SecurityAlertsForAlertsToo(log, event, t, tz) ==
    IF \/ event.action = "security_alert"
       \/ /\ event.action = "login_failed"
          /\ event.ip_address # NoIp
          /\ FailedLogins(log, event.ip_address, t - Hour) >= BruteForceThreshold
    THEN <<AuditEntry("system", NULL, "security_alert", NULL, NoIp, "brute_force_attempt", t)>>
    ELSE IF /\ event.action = "voucher_redeemed"
            /\ event.user_id # NULL
            /\ RecentRedemptions(log, event.user_id, TodayStart(t, tz)) >= AbuseThreshold
    THEN <<AuditEntry("system", NULL, "security_alert", NULL, NoIp, "voucher_abuse", t)>>
    ELSE <<>>

\* checkSecurityAlerts, run on the log that already holds the event: the alert
\* events it passes to auditLog, in the order of the two rules.
SecurityAlerts(log, event, t, tz) ==
    LET brute == IF /\ event.action = "login_failed"
                    /\ event.ip_address # NoIp
                    /\ FailedLogins(log, event.ip_address, t - Hour) >= BruteForceThreshold
                 THEN <<AuditEntry("system", NULL, "security_alert", NULL, NoIp,
                                   "brute_force_attempt", t)>>
                 ELSE <<>>
        abuse == IF /\ event.action = "voucher_redeemed"
                    /\ event.user_id # NULL
                    /\ RecentRedemptions(log \o brute, event.user_id, TodayStart(t, tz))
                           >= AbuseThreshold
                 THEN <<AuditEntry("system", NULL, "security_alert", NULL, NoIp,
                                   "voucher_abuse", t)>>
                 ELSE <<>>
    IN brute \o abuse

\* One auditLog call with a working database: the entry is inserted, then
\* checkSecurityAlerts runs and calls auditLog for every alert it raises.  The
\* result is the log and the depth the calls nest to; calls nested deeper than
\* MaxAuditDepth are not followed.
RECURSIVE AuditCall(_, _, _, _, _)
AuditCall(log, event, t, tz, nested) ==
    LET logged == Append(log, event)
        alerts == IF nested = 0 THEN <<>> ELSE SecurityAlerts(logged, event, t, tz)
        first == AuditCall(logged, alerts[1], t, tz, nested - 1)
        second == AuditCall(first.log, alerts[2], t, tz, nested - 1)
    IN CASE Len(alerts) = 0 -> [log |-> logged, depth |-> 1]
         [] Len(alerts) = 1 -> [log |-> first.log, depth |-> 1 + first.depth]
         [] OTHER -> [log |-> second.log,
                      depth |-> 1 + IF first.depth > second.depth THEN first.depth
                                    ELSE second.depth]

AuditLogged(log, event, t, tz) == AuditCall(log, event, t, tz, MaxAuditDepth - 1).log

\* Consecutive auditLog calls of one handler step.
RECURSIVE AuditLoggedAll(_, _, _, _)
AuditLoggedAll(log, events, t, tz) ==
    IF events = <<>> THEN log
    ELSE AuditLoggedAll(AuditLogged(log, Head(events), t, tz), Tail(events), t, tz)

\* The statements of auditLog the database may reject: the INSERT of the entry,
\* or the SELECT of checkSecurityAlerts.
AuditFaults == {"insert", "check"}

\* auditLog.  A rejected INSERT is caught by auditLog and leaves the log as it
\* is; a rejected SELECT is caught by checkSecurityAlerts, after the entry has
\* been inserted.
auditLogInto(log, events) ==
    \E tzh \in TimeZoneOffsetHours :
        audit_log' = CASE audit_fault = "insert" -> log
                       [] audit_fault = "check" -> log \o events
                       [] OTHER -> AuditLoggedAll(log, events, now, tzh * Hour)

auditLog(events) == auditLogInto(audit_log, events)

\* Variant: the catch block of auditLog throws the error on.
AuditRethrows(fault) == fault # "none"

\* Whether auditLog throws to its caller: its catch block logs to the console
\* and returns.
AuditThrows(fault) == FALSE

\* The answer of a handler that has called auditLog before it answers r: an
\* error thrown by the call would reach the catch block of the handler.
AfterAudit(r) ==
    IF AuditThrows(audit_fault)
    THEN [op |-> r.op, outcome |-> "Internal", http |-> 500, code |-> NoCode, id |-> NULL]
    ELSE r

\* ------------------------------------------------------------ voucher store
\* Variant: the column code declared without UNIQUE, so no INSERT is rejected.
NoUniqueConstraint(vs, code) == FALSE

\* code TEXT UNIQUE NOT NULL: an INSERT whose code is already in the table fails.
UniqueViolation(vs, code) == \E i \in DOMAIN vs : vs[i].code = code

\* SELECT ... WHERE v.code = ?: the id of the voucher with the code, or NULL.
VoucherIdByCode(vs, code) ==
    IF \E i \in DOMAIN vs : vs[i].code = code
    THEN CHOOSE i \in DOMAIN vs : vs[i].code = code
    ELSE NULL

\* Variant: expires_at taken from the clock alone, the window left out.
NewVoucherWithoutWindow(user_id, type, code, expires_in_hours, t) ==
    [user_id |-> user_id, code |-> code, type |-> type, status |-> "active",
     expires_at |-> t, redeemed_at |-> NULL, redeemed_by |-> NULL]

\* The voucher object createVoucher builds and inserts.
NewVoucher(user_id, type, code, expires_in_hours, t) ==
    [user_id |-> user_id, code |-> code, type |-> type, status |-> "active",
     expires_at |-> t + expires_in_hours * Hour,
     redeemed_at |-> NULL, redeemed_by |-> NULL]

\* createVoucher, when the INSERT succeeds: the row is added; the caller's step
\* then audits the creation with VoucherCreated.
createVoucherDone(user_id, type, expires_in_hours, rnd) ==
    LET code == generateVoucherCode(type, rnd)
    IN /\ ~UniqueViolation(vouchers, code)
       /\ vouchers' = Append(vouchers, NewVoucher(user_id, type, code, expires_in_hours, now))

VoucherCreated(by_type, by_id) ==
    AuditEntry(by_type, by_id, "voucher_created", Len(vouchers) + 1, NoIp, "", now)

\* createVoucher, when the INSERT is rejected: the error is rethrown before the
\* audit call is reached.
createVoucherThrows(type, rnd) ==
    /\ UniqueViolation(vouchers, generateVoucherCode(type, rnd))
    /\ UNCHANGED <<vouchers, audit_log>>

\* Handlers that are about to insert a voucher.
PendingCreates ==
    Cardinality({p \in Procs : \/ pc[p] \in {"signup_reward", "visit_write", "visit_reward"}
                               \/ pc[p] = "signup_insert" /\ req[p].consent})

VoucherCodes == {vouchers[i].code : i \in DOMAIN vouchers}

\* The table is kept to MaxVouchers distinct codes: a handler that will insert a
\* voucher starts only when there is room for one more code.
RoomForVoucher == Cardinality(VoucherCodes) + PendingCreates < MaxVouchers
RoomForCode(code) ==
    Cardinality(VoucherCodes \cup {code}) + PendingCreates <= MaxVouchers

\* createVoucher called directly.
CreateVoucher(p, user_id, type, expires_in_hours, rnd) ==
    /\ pc[p] = "idle"
    /\ RoomForCode(generateVoucherCode(type, rnd))
    /\ \/ /\ createVoucherDone(user_id, type, expires_in_hours, rnd)
          /\ auditLog(<<VoucherCreated("system", NULL)>>)
          /\ resp' = AfterAudit(Resp("create", "Created", 201,
                                      generateVoucherCode(type, rnd), Len(vouchers) + 1))
       \/ /\ createVoucherThrows(type, rnd)
          /\ resp' = Resp("create", "DuplicateCode", 500, generateVoucherCode(type, rnd),
                           NULL)
    /\ UNCHANGED <<now, users, pc, req, staff, audit_fault, tokens>>

\* Variant: a failed encoding is passed over, the voucher is stored without
\* the image.
EncodingSwallowed(qr_encodes, barcode_encodes) == FALSE

\* generateQRCode and generateBarcode throw what the encoding library throws,
\* and the catch block of createVoucher throws it on.
EncodingThrows(qr_encodes, barcode_encodes) == ~qr_encodes \/ ~barcode_encodes

\* createVoucher for a payload the QR encoder and a code the barcode encoder
\* accept or refuse: the encoding comes before the INSERT.
CreateVoucherEncoded(p, user_id, type, expires_in_hours, rnd, qr_encodes, barcode_encodes) ==
    IF EncodingThrows(qr_encodes, barcode_encodes)
    THEN /\ pc[p] = "idle"
         /\ resp' = Resp("create", "EncodingFailed", 500, generateVoucherCode(type, rnd),
                          NULL)
         /\ UNCHANGED <<now, vouchers, users, audit_log, pc, req, staff, audit_fault, tokens>>
    ELSE CreateVoucher(p, user_id, type, expires_in_hours, rnd)

\* ----------------------------------------------------------------- loyalty
\* Variant: a tier is entered one visit after its threshold.
NewTierAboveThreshold(newVisitCount) ==
    IF newVisitCount > PlatinumVisits THEN "Platinum"
    ELSE IF newVisitCount > GoldVisits THEN "Gold"
    ELSE IF newVisitCount > SilverVisits THEN "Silver"
    ELSE "Bronze"

\* The tier updateUserLoyalty gives a visit count.
NewTier(newVisitCount) ==
    IF newVisitCount >= PlatinumVisits THEN "Platinum"
    ELSE IF newVisitCount >= GoldVisits THEN "Gold"
    ELSE IF newVisitCount >= SilverVisits THEN "Silver"
    ELSE "Bronze"

NewVisitCount(visit_count, action) ==
    IF action = "visit" THEN visit_count + 1 ELSE visit_count

\* The row POST /customer/signup inserts.
SignupVisitCount == 1
NewUser(email) ==
    [email |-> email, visit_count |-> SignupVisitCount, loyalty_tier |-> "Bronze"]

\* UPDATE users SET visit_count = ?, loyalty_tier = ?, updated_at = ... WHERE id = ?
LoyaltyUpdateColumns == {"visit_count", "loyalty_tier", "updated_at"}
UpdateUserRow(us, uid, newVisitCount, newTier) ==
    IF SqlColumnsExist(LoyaltyUpdateColumns, UserColumns)
    THEN [us EXCEPT ![uid] = [@ EXCEPT !.visit_count = newVisitCount,
                                       !.loyalty_tier = newTier]]
    ELSE us

ClientIp == "203.0.113.5"

SignupSuccess(uid) ==
    AuditEntry("customer", uid, "signup_success", NULL, ClientIp, "", now)

\* SELECT id FROM users WHERE email = ?, and email TEXT UNIQUE NOT NULL.
EmailRegistered(us, email) == \E i \in DOMAIN us : us[i].email = email

\* POST /customer/signup up to the SELECT of the user: 409 for an email that is
\* registered.
SignupCheck(p, email, consent) ==
    /\ pc[p] = "idle"
    /\ IF EmailRegistered(users, email)
       THEN /\ resp' = Resp("signup", "Conflict", 409, NoCode, NULL)
            /\ UNCHANGED <<pc, req>>
       ELSE /\ pc' = [pc EXCEPT ![p] = "signup_insert"]
            /\ req' = [req EXCEPT ![p] = [NoReq EXCEPT !.arg = email, !.consent = consent]]
            /\ UNCHANGED resp
    /\ UNCHANGED <<now, vouchers, users, audit_log, staff, audit_fault, tokens>>

\* The INSERT of the user, rejected (and answered 500) when the email has been
\* registered since the SELECT; without marketing consent the audit call and
\* the answer follow at once.
SignupInsert(p) ==
    /\ pc[p] = "signup_insert"
    /\ IF EmailRegistered(users, req[p].arg)
       THEN /\ resp' = Resp("signup", "Internal", 500, NoCode, NULL)
            /\ pc' = [pc EXCEPT ![p] = "idle"]
            /\ req' = [req EXCEPT ![p] = NoReq]
            /\ UNCHANGED <<users, audit_log>>
       ELSE /\ users' = Append(users, NewUser(req[p].arg))
            /\ IF req[p].consent
               THEN /\ pc' = [pc EXCEPT ![p] = "signup_reward"]
                    /\ req' = [req EXCEPT ![p] = [NoReq EXCEPT !.uid = Len(users) + 1]]
                    /\ UNCHANGED <<audit_log, resp>>
               ELSE /\ auditLog(<<SignupSuccess(Len(users) + 1)>>)
                    /\ resp' = AfterAudit(Resp("signup", "Created", 201, NoCode, NULL))
                    /\ pc' = [pc EXCEPT ![p] = "idle"]
                    /\ req' = [req EXCEPT ![p] = NoReq]
    /\ UNCHANGED <<now, vouchers, staff, audit_fault, tokens>>

\* The welcome voucher of a signup with marketing consent: createLoyaltyReward
\* for tier Bronze, then the signup's audit call.  When the voucher cannot be
\* created the handler answers 500 and the user row stays.
SignupReward(p, rnd) ==
    /\ pc[p] = "signup_reward"
    /\ \/ /\ createVoucherDone(req[p].uid, "loyalty_reward", LoyaltyRewardHours, rnd)
          /\ auditLog(<<VoucherCreated("system", NULL), SignupSuccess(req[p].uid)>>)
          /\ resp' = AfterAudit(Resp("signup", "Created", 201,
                                      generateVoucherCode("loyalty_reward", rnd),
                                      Len(vouchers) + 1))
       \/ /\ createVoucherThrows("loyalty_reward", rnd)
          /\ resp' = Resp("signup", "Internal", 500, NoCode, NULL)
    /\ pc' = [pc EXCEPT ![p] = "idle"]
    /\ req' = [req EXCEPT ![p] = NoReq]
    /\ UNCHANGED <<now, users, staff, audit_fault, tokens>>

\* updateUserLoyalty(user_id, 'visit') up to the SELECT of the user.
VisitRead(p, uid) ==
    /\ pc[p] = "idle"
    /\ uid \in DOMAIN users
    /\ pc' = [pc EXCEPT ![p] = "visit_write"]
    /\ req' = [req EXCEPT ![p] = [NoReq EXCEPT !.uid = uid,
                                              !.count = users[uid].visit_count,
                                              !.tier = users[uid].loyalty_tier]]
    /\ UNCHANGED <<now, vouchers, users, audit_log, resp, staff, audit_fault, tokens>>

\* The UPDATE of updateUserLoyalty(user_id, 'visit'), computed from the row read.
VisitWrite(p) ==
    /\ pc[p] = "visit_write"
    /\ LET newVisitCount == NewVisitCount(req[p].count, "visit")
           newTier == NewTier(newVisitCount)
           tierChanged == newTier # req[p].tier
       IN /\ users' = UpdateUserRow(users, req[p].uid, newVisitCount, newTier)
          /\ IF tierChanged
             THEN /\ pc' = [pc EXCEPT ![p] = "visit_reward"]
                  /\ req' = [req EXCEPT ![p].count = newVisitCount, ![p].tier = newTier]
                  /\ UNCHANGED resp
             ELSE /\ pc' = [pc EXCEPT ![p] = "idle"]
                  /\ req' = [req EXCEPT ![p] = NoReq]
                  /\ resp' = Resp("visit", "Recorded", 200, NoCode, NULL)
    /\ UNCHANGED <<now, vouchers, audit_log, staff, audit_fault, tokens>>

\* createLoyaltyReward after a visit that changed the tier.
VisitReward(p, rnd) ==
    /\ pc[p] = "visit_reward"
    /\ \/ /\ createVoucherDone(req[p].uid, "loyalty_reward", LoyaltyRewardHours, rnd)
          /\ auditLog(<<VoucherCreated("system", NULL)>>)
          /\ resp' = AfterAudit(Resp("visit", "TierChanged", 200,
                                      generateVoucherCode("loyalty_reward", rnd),
                                      Len(vouchers) + 1))
       \/ /\ createVoucherThrows("loyalty_reward", rnd)
          /\ resp' = Resp("visit", "Internal", 500, NoCode, NULL)
    /\ pc' = [pc EXCEPT ![p] = "idle"]
    /\ req' = [req EXCEPT ![p] = NoReq]
    /\ UNCHANGED <<now, users, staff, audit_fault, tokens>>

\* -------------------------------------------------------------- redemption
\* Variant: the test for status redeemed left out.
RedeemCheckWithoutRedeemedTest(vs, id, t) ==
    IF id = NULL THEN "NotFound"
    ELSE IF vs[id].expires_at < t THEN "Expired"
    ELSE IF vs[id].status # "active" THEN "NotActive"
    ELSE "Validated"

\* Variant: the expiry not tested.
RedeemCheckWithoutExpiryTest(vs, id, t) ==
    IF id = NULL THEN "NotFound"
    ELSE IF vs[id].status = "redeemed" THEN "AlreadyRedeemed"
    ELSE IF vs[id].status # "active" THEN "NotActive"
    ELSE "Validated"

\* Variant: the expiry tested before the status.
RedeemCheckExpiryFirst(vs, id, t) ==
    IF id = NULL THEN "NotFound"
    ELSE IF vs[id].expires_at < t THEN "Expired"
    ELSE IF vs[id].status = "redeemed" THEN "AlreadyRedeemed"
    ELSE IF vs[id].status # "active" THEN "NotActive"
    ELSE "Validated"

\* The checks of redeemVoucher on the row it read, in the order the code makes
\* them; "Validated" when none throws.
RedeemCheck(vs, id, t) ==
    IF id = NULL THEN "NotFound"
    ELSE IF vs[id].status = "redeemed" THEN "AlreadyRedeemed"
    ELSE IF vs[id].expires_at < t THEN "Expired"
    ELSE IF vs[id].status # "active" THEN "NotActive"
    ELSE "Validated"

\* The catch block of POST /redeem: the status it answers for a thrown message.
RedeemErrorStatus(outcome) ==
    CASE outcome = "NotFound" -> 404
      [] outcome = "AlreadyRedeemed" -> 409
      [] outcome = "Expired" -> 410
      [] outcome = "NotActive" -> 400
      [] OTHER -> 500

\* UPDATE vouchers SET status = 'redeemed', redeemed_at = datetime('now'),
\* redeemed_by = ? WHERE id = ?
RedeemUpdateColumns == {"status", "redeemed_at", "redeemed_by"}
MarkRedeemed(vs, id, redeemed_by, t) ==
    IF SqlColumnsExist(RedeemUpdateColumns, VoucherColumns)
    THEN [vs EXCEPT ![id] = [@ EXCEPT !.status = "redeemed",
                                      !.redeemed_at = CurrentTimestamp(t),
                                      !.redeemed_by = redeemed_by]]
    ELSE vs

\* Whether a redemption goes on to updateUserLoyalty.
UpdatesLoyalty(v) == v.user_id # NULL /\ v.type = "loyalty_reward"

\* Variant: the redemption passed on as a visit.
RedeemCountedAsVisit == "visit"

\* The action redeemVoucher passes to updateUserLoyalty.
RedeemLoyaltyAction == "redemption"

\* POST /redeem up to the SELECT of the voucher and the checks on it.
RedeemRead(p, code, redeemed_by) ==
    /\ pc[p] = "idle"
    /\ LET id == VoucherIdByCode(vouchers, code)
           outcome == RedeemCheck(vouchers, id, now)
       IN IF outcome = "Validated"
          THEN /\ pc' = [pc EXCEPT ![p] = "redeem_write"]
               /\ req' = [req EXCEPT ![p] = [NoReq EXCEPT !.id = id,
                                                         !.staff = redeemed_by]]
               /\ UNCHANGED resp
          ELSE /\ resp' = Resp("redeem", outcome, RedeemErrorStatus(outcome), code, id)
               /\ UNCHANGED <<pc, req>>
    /\ UNCHANGED <<now, vouchers, users, audit_log, staff, audit_fault, tokens>>

\* The UPDATE that marks the voucher redeemed.
RedeemWrite(p) ==
    /\ pc[p] = "redeem_write"
    /\ vouchers' = MarkRedeemed(vouchers, req[p].id, req[p].staff, now)
    /\ pc' = [pc EXCEPT ![p] = IF UpdatesLoyalty(vouchers[req[p].id])
                               THEN "redeem_loyalty" ELSE "redeem_audit"]
    /\ UNCHANGED <<now, users, audit_log, req, resp, staff, audit_fault, tokens>>

\* updateUserLoyalty(user_id, 'redemption') up to the SELECT of the user.
RedeemLoyaltyRead(p) ==
    /\ pc[p] = "redeem_loyalty"
    /\ LET uid == vouchers[req[p].id].user_id
       IN req' = [req EXCEPT ![p].uid = uid,
                             ![p].count = users[uid].visit_count,
                             ![p].tier = users[uid].loyalty_tier]
    /\ pc' = [pc EXCEPT ![p] = "redeem_loyalty_write"]
    /\ UNCHANGED <<now, vouchers, users, audit_log, resp, staff, audit_fault, tokens>>

\* The UPDATE of updateUserLoyalty(user_id, 'redemption'); no reward follows,
\* which is created for action 'visit' alone.
RedeemLoyaltyWrite(p) ==
    /\ pc[p] = "redeem_loyalty_write"
    /\ LET newVisitCount == NewVisitCount(req[p].count, RedeemLoyaltyAction)
       IN users' = UpdateUserRow(users, req[p].uid, newVisitCount, NewTier(newVisitCount))
    /\ pc' = [pc EXCEPT ![p] = "redeem_audit"]
    /\ UNCHANGED <<now, vouchers, audit_log, req, resp, staff, audit_fault, tokens>>

\* The database rejects the SELECT or the UPDATE of updateUserLoyalty: its
\* catch block throws the error on, so does the one of redeemVoucher, and the
\* route answers 500.  The audit call of redeemVoucher is not reached.
RedeemLoyaltyThrows(p) ==
    /\ pc[p] \in {"redeem_loyalty", "redeem_loyalty_write"}
    /\ resp' = Resp("redeem", "Internal", RedeemErrorStatus("Internal"),
                    vouchers[req[p].id].code, req[p].id)
    /\ pc' = [pc EXCEPT ![p] = "idle"]
    /\ req' = [req EXCEPT ![p] = NoReq]
    /\ UNCHANGED <<now, vouchers, users, audit_log, staff, audit_fault, tokens>>

\* The audit call of redeemVoucher and its return.
RedeemAudit(p) ==
    /\ pc[p] = "redeem_audit"
    /\ auditLog(<<AuditEntry("staff", req[p].staff, "voucher_redeemed", req[p].id,
                             NoIp, "", now)>>)
    /\ resp' = AfterAudit(Resp("redeem", "Committed", 200, vouchers[req[p].id].code,
                                req[p].id))
    /\ pc' = [pc EXCEPT ![p] = "idle"]
    /\ req' = [req EXCEPT ![p] = NoReq]
    /\ UNCHANGED <<now, vouchers, users, staff, audit_fault, tokens>>

\* ----------------------------------------------------------- status update
StatusInputs == {"active", "cancelled"}   \* of body('status').isIn([...])

\* UPDATE vouchers SET status = ?, updated_at = datetime('now') WHERE id = ?
StatusUpdateColumns == {"status", "updated_at"}
SetStatus(vs, id, status) ==
    IF SqlColumnsExist(StatusUpdateColumns, VoucherColumns)
    THEN [vs EXCEPT ![id] = [@ EXCEPT !.status = status]]
    ELSE vs

\* PATCH /:id/status up to the SELECT of the voucher and the check on it.
StatusRead(p, id, status, manager) ==
    /\ pc[p] = "idle"
    /\ IF id \notin DOMAIN vouchers
       THEN /\ resp' = Resp("status", "NotFound", 404, NoCode, NULL)
            /\ UNCHANGED <<pc, req>>
       ELSE IF vouchers[id].status = "redeemed"
       THEN /\ resp' = Resp("status", "InvalidTransition", 400, vouchers[id].code, id)
            /\ UNCHANGED <<pc, req>>
       ELSE /\ pc' = [pc EXCEPT ![p] = "status_write"]
            /\ req' = [req EXCEPT ![p] = [NoReq EXCEPT !.id = id, !.staff = manager,
                                                      !.arg = status]]
            /\ UNCHANGED resp
    /\ UNCHANGED <<now, vouchers, users, audit_log, staff, audit_fault, tokens>>

\* The UPDATE of PATCH /:id/status.  The statement sets updated_at, a column
\* the vouchers table does not have, so the database rejects it and the handler
\* answers 500 from its catch block; were it accepted, the change would be
\* audited and answered 200.
StatusWrite(p) ==
    /\ pc[p] = "status_write"
    /\ vouchers' = SetStatus(vouchers, req[p].id, req[p].arg)
    /\ IF SqlColumnsExist(StatusUpdateColumns, VoucherColumns)
       THEN /\ auditLog(<<AuditEntry("staff", req[p].staff, "voucher_status_changed",
                                     req[p].id, NoIp, "", now)>>)
            /\ resp' = AfterAudit(Resp("status", "Changed", 200, vouchers[req[p].id].code,
                                        req[p].id))
       ELSE /\ resp' = Resp("status", "Internal", 500, vouchers[req[p].id].code, req[p].id)
            /\ UNCHANGED audit_log
    /\ pc' = [pc EXCEPT ![p] = "idle"]
    /\ req' = [req EXCEPT ![p] = NoReq]
    /\ UNCHANGED <<now, users, staff, audit_fault, tokens>>

\* ------------------------------------------------------------ staff vouchers
StaffWiFiHours == 24         \* validity of a staff WiFi voucher
HalfDay == 12 * Hour    \* the step of the clock where calendar days matter

StaffColumns ==
    {"id", "site_id", "email", "name", "pin_hash", "role", "device_limit",
     "daily_voucher_used", "last_voucher_date", "failed_attempts", "locked_until",
     "created_at", "updated_at"}

\* A row of the staff table as it is inserted: daily_voucher_used 0 and
\* failed_attempts 0 by default, last_voucher_date and locked_until NULL.
NewStaff(role) ==
    [role |-> role, daily_voucher_used |-> FALSE, last_voucher_date |-> NoDate,
     failed_attempts |-> 0, locked_until |-> NULL]

\* new Date().toISOString().split('T')[0]: the calendar date in UTC.
Today(t) == UtcDate(t)

\* Variant: the flag decides alone, whatever the date it was set on.
DailyLimitByFlagAlone(row, today) == row.daily_voucher_used

\* The daily check of createStaffWiFiVoucher on the row it read.
DailyLimitReached(row, today) == row.last_voucher_date = today /\ row.daily_voucher_used

\* Variant: the flag set without the date.
MarkVoucherUsedWithoutDate(st, id, today) ==
    [st EXCEPT ![id] = [@ EXCEPT !.daily_voucher_used = TRUE]]

\* UPDATE staff SET daily_voucher_used = 1, last_voucher_date = ? WHERE id = ?
StaffFlagColumns == {"daily_voucher_used", "last_voucher_date"}
MarkVoucherUsed(st, id, today) ==
    IF SqlColumnsExist(StaffFlagColumns, StaffColumns)
    THEN [st EXCEPT ![id] = [@ EXCEPT !.daily_voucher_used = TRUE,
                                      !.last_voucher_date = today]]
    ELSE st

\* UPDATE staff SET daily_voucher_used = 0 WHERE id = ?
ResetDailyFlag(st, id) ==
    IF SqlColumnsExist({"daily_voucher_used"}, StaffColumns)
    THEN [st EXCEPT ![id] = [@ EXCEPT !.daily_voucher_used = FALSE]]
    ELSE st

\* POST /staff-wifi: createStaffWiFiVoucher up to the SELECT of the staff row
\* and the daily check on it; 409 when the check throws.
IssueRead(p, s) ==
    /\ pc[p] = "idle"
    /\ IF DailyLimitReached(staff[s], Today(now))
       THEN /\ resp' = Resp("staff_wifi", "DailyLimitReached", 409, NoCode, NULL)
            /\ UNCHANGED <<pc, req>>
       ELSE /\ pc' = [pc EXCEPT ![p] = "issue_create"]
            /\ req' = [req EXCEPT ![p] = [NoReq EXCEPT !.staff = s, !.date = Today(now),
                                                      !.arg = "staff_wifi"]]
            /\ UNCHANGED resp
    /\ UNCHANGED <<now, vouchers, users, audit_log, staff, audit_fault, tokens>>

\* The createVoucher call of createStaffWiFiVoucher, for either route: the
\* voucher is inserted and its creation audited, or the INSERT is rejected and
\* the route answers 500 from its catch block.
IssueCreate(p, rnd) ==
    /\ pc[p] = "issue_create"
    /\ \/ /\ createVoucherDone(NULL, "staff_wifi", StaffWiFiHours, rnd)
          /\ auditLog(<<VoucherCreated("staff", req[p].staff)>>)
          /\ pc' = [pc EXCEPT ![p] = "issue_flag"]
          /\ req' = [req EXCEPT ![p].id = Len(vouchers) + 1]
          /\ UNCHANGED resp
       \/ /\ createVoucherThrows("staff_wifi", rnd)
          /\ resp' = Resp(req[p].arg, "Internal", 500, NoCode, NULL)
          /\ pc' = [pc EXCEPT ![p] = "idle"]
          /\ req' = [req EXCEPT ![p] = NoReq]
    /\ UNCHANGED <<now, users, staff, audit_fault, tokens>>

\* The UPDATE that marks the daily voucher as used, with the date of the check;
\* POST /staff-wifi then answers 201, the override goes on to its audit call.
IssueFlag(p) ==
    /\ pc[p] = "issue_flag"
    /\ staff' = MarkVoucherUsed(staff, req[p].staff, req[p].date)
    /\ IF req[p].arg = "override"
       THEN /\ pc' = [pc EXCEPT ![p] = "override_audit"]
            /\ UNCHANGED <<req, resp>>
       ELSE /\ resp' = Resp("staff_wifi", "Created", 201, vouchers[req[p].id].code,
                             req[p].id)
            /\ pc' = [pc EXCEPT ![p] = "idle"]
            /\ req' = [req EXCEPT ![p] = NoReq]
    /\ UNCHANGED <<now, vouchers, users, audit_log, audit_fault, tokens>>

\* requireManager: the role of the staff row verifyToken read.
IsManager(row) == row.role \in {"admin", "manager"}

\* POST /staff-wifi/override up to the SELECT of the target: 403 without a
\* manager's role, 404 for an email no staff row has (target NULL).
OverrideRead(p, m, target) ==
    /\ pc[p] = "idle"
    /\ IF ~IsManager(staff[m])
       THEN /\ resp' = Resp("override", "Forbidden", 403, NoCode, NULL)
            /\ UNCHANGED <<pc, req>>
       ELSE IF target = NULL
       THEN /\ resp' = Resp("override", "NotFound", 404, NoCode, NULL)
            /\ UNCHANGED <<pc, req>>
       ELSE /\ pc' = [pc EXCEPT ![p] = "override_reset"]
            /\ req' = [req EXCEPT ![p] = [NoReq EXCEPT !.staff = target, !.manager = m,
                                                      !.arg = "override"]]
            /\ UNCHANGED resp
    /\ UNCHANGED <<now, vouchers, users, audit_log, staff, audit_fault, tokens>>

\* The UPDATE of the override that resets the flag of the target.
OverrideReset(p) ==
    /\ pc[p] = "override_reset"
    /\ staff' = ResetDailyFlag(staff, req[p].staff)
    /\ pc' = [pc EXCEPT ![p] = "override_check"]
    /\ UNCHANGED <<now, vouchers, users, audit_log, req, resp, audit_fault, tokens>>

\* createStaffWiFiVoucher called by the override, up to its SELECT and daily
\* check: when the check throws, the catch block of the override answers 500.
OverrideCheck(p) ==
    /\ pc[p] = "override_check"
    /\ IF DailyLimitReached(staff[req[p].staff], Today(now))
       THEN /\ resp' = Resp("override", "Internal", 500, NoCode, NULL)
            /\ pc' = [pc EXCEPT ![p] = "idle"]
            /\ req' = [req EXCEPT ![p] = NoReq]
       ELSE /\ pc' = [pc EXCEPT ![p] = "issue_create"]
            /\ req' = [req EXCEPT ![p].date = Today(now)]
            /\ UNCHANGED resp
    /\ UNCHANGED <<now, vouchers, users, audit_log, staff, audit_fault, tokens>>

\* The audit call of the override, with the manager as its actor, and the answer.
OverrideAudit(p) ==
    /\ pc[p] = "override_audit"
    /\ auditLog(<<AuditEntry("staff", req[p].manager, "staff_wifi_override", req[p].id,
                             NoIp, "", now)>>)
    /\ resp' = AfterAudit(Resp("override", "Created", 201, vouchers[req[p].id].code,
                                req[p].id))
    /\ pc' = [pc EXCEPT ![p] = "idle"]
    /\ req' = [req EXCEPT ![p] = NoReq]
    /\ UNCHANGED <<now, vouchers, users, staff, audit_fault, tokens>>

\* ------------------------------------------------------------------ cleanup
RetentionDays == 365
CutoffDate(t) == t - RetentionDays * Day

\* DELETE FROM audit_log WHERE created_at < ?: the rows it removes.
DeletedRows(log, cutoff) ==
    {k \in DOMAIN log : SqlCreatedBefore(log[k].created_at, cutoff)}

RECURSIVE WithoutRows(_, _, _)
WithoutRows(log, rows, k) ==
    IF k > Len(log) THEN <<>>
    ELSE (IF k \in rows THEN <<>> ELSE <<log[k]>>) \o WithoutRows(log, rows, k + 1)

\* cleanOldAuditLogs: the DELETE, then the audit call for the cleanup.
CleanOldAuditLogs ==
    /\ auditLogInto(WithoutRows(audit_log, DeletedRows(audit_log, CutoffDate(now)), 1),
                    <<AuditEntry("system", NULL, "audit_cleanup", NULL, NoIp, "", now)>>)
    /\ UNCHANGED <<now, vouchers, users, pc, req, resp, staff, audit_fault, tokens>>

\* -------------------------------------------------------------------- login
OtherIp == "198.51.100.7"
Origins == {ClientIp, OtherIp, NoIp}   \* req.ip || req.connection.remoteAddress
HalfHour == Hour \div 2

LoginFailedEvent(ip) == AuditEntry("staff", NULL, "login_failed", NULL, ip, "", now)

\* authenticateStaff for an email no staff member has: the failure is audited
\* with the address of the client and answered 401.  authenticateCustomer does
\* the same for credentials no customer has.
LoginFailed(ip) ==
    /\ auditLog(<<LoginFailedEvent(ip)>>)
    /\ resp' = AfterAudit(Resp("login", "InvalidCredentials", 401, NoCode, NULL))
    /\ UNCHANGED <<now, vouchers, users, pc, req, staff, audit_fault, tokens>>

\* -------------------------------------------------------------- staff login
MaxFailedAttempts == 3       \* invalid PINs that lock the account
LockMinutes == 30
LockTime == LockMinutes * (Hour \div 60)
DeviceMac == "02:00:00:00:00:01"
DeviceMacs == {"", DeviceMac}    \* X-Device-MAC, absent or given

\* Variant: the lock looked at only after the PIN has been found valid or not.
IsLockedNever(row, t) == FALSE

\* staff.locked_until && new Date(staff.locked_until) > new Date()
IsLocked(row, t) == row.locked_until # NULL /\ row.locked_until > t

\* Variant: the counter starts again at 1 once a lock has run out.
FailedAttemptsAfterExpiry(row, t) ==
    IF row.locked_until # NULL /\ row.locked_until <= t THEN 1
    ELSE row.failed_attempts + 1

\* staff.failed_attempts + 1, on the row the handler read.
NewFailedAttempts(row, t) == row.failed_attempts + 1

\* updateData: locked_until is set when the new count is 3 or more, and NULL
\* is bound to the UPDATE otherwise.
NewLockedUntil(newFailedAttempts, t) ==
    IF newFailedAttempts >= MaxFailedAttempts THEN t + LockTime ELSE NULL

\* UPDATE staff SET failed_attempts = ?, locked_until = ? WHERE id = ?
StaffLoginColumns == {"failed_attempts", "locked_until"}
SetLoginColumns(st, id, failed_attempts, locked_until) ==
    IF SqlColumnsExist(StaffLoginColumns, StaffColumns)
    THEN [st EXCEPT ![id] = [@ EXCEPT !.failed_attempts = failed_attempts,
                                      !.locked_until = locked_until]]
    ELSE st

StaffLoginEvent(action, s, ip) == AuditEntry("staff", s, action, NULL, ip, "", now)

\* blockDeviceByMAC: the event it audits when the request names a device.
DeviceBlocked(mac) ==
    IF mac = "" THEN <<>>
    ELSE <<AuditEntry("system", NULL, "device_blocked", NULL, NoIp, "", now)>>

\* Variant: the token verified without a look at the lock.
VerifyTokenIgnoresLock(row, t) == TRUE

\* locked_until < datetime("now"): locked_until holds Date.toISOString(),
\* "YYYY-MM-DDTHH:MM:SS.sssZ", and datetime gives "YYYY-MM-DD HH:MM:SS".  Both
\* are TEXT: the dates decide, and on equal dates 'T' sorts after ' '.
SqlLockedBefore(locked_until, t) == UtcDate(locked_until) < UtcDate(t)

\* verifyToken for a staff token: SELECT * FROM staff WHERE id = ? AND
\* (locked_until IS NULL OR locked_until < datetime("now")) finds the row.
VerifyTokenPasses(row, t) ==
    row.locked_until = NULL \/ SqlLockedBefore(row.locked_until, t)

\* verifyToken finds no row for the token of s: 401, and the route's handler
\* is not called.
Unauthorized(p, s) ==
    /\ pc[p] = "idle"
    /\ resp' = Resp("verify_token", "Unauthorized", 401, NoCode, NULL)
    /\ UNCHANGED <<now, vouchers, users, audit_log, pc, req, staff, audit_fault, tokens>>

\* authenticateStaff up to the SELECT of the staff row and the lock check on
\* it: a locked account is audited as login_failed and answered 423, whatever
\* the PIN.
StaffLoginRead(p, s, pin_valid, mac) ==
    /\ pc[p] = "idle"
    /\ IF IsLocked(staff[s], now)
       THEN /\ auditLog(<<StaffLoginEvent("login_failed", s, ClientIp)>>)
            /\ resp' = AfterAudit(Resp("staff_login", "AccountLocked", 423, NoCode, NULL))
            /\ UNCHANGED <<pc, req>>
       ELSE /\ pc' = [pc EXCEPT ![p] = "login_write"]
            /\ req' = [req EXCEPT ![p] =
                          [NoReq EXCEPT !.staff = s,
                                        !.count = NewFailedAttempts(staff[s], now),
                                        !.arg = IF pin_valid THEN "pin_valid"
                                                ELSE "pin_invalid",
                                        !.mac = mac]]
            /\ UNCHANGED <<audit_log, resp>>
    /\ UNCHANGED <<now, vouchers, users, staff, audit_fault, tokens>>

\* After bcrypt.compare: for an invalid PIN the device is blocked when the
\* account is to be locked, and the UPDATE writes the new count and the lock;
\* for the valid PIN the UPDATE resets both.
StaffLoginWrite(p) ==
    /\ pc[p] = "login_write"
    /\ IF req[p].arg = "pin_invalid"
       THEN /\ staff' = SetLoginColumns(staff, req[p].staff, req[p].count,
                                         NewLockedUntil(req[p].count, now))
            /\ auditLog(IF req[p].count >= MaxFailedAttempts
                        THEN DeviceBlocked(req[p].mac) ELSE <<>>)
       ELSE /\ staff' = SetLoginColumns(staff, req[p].staff, 0, NULL)
            /\ UNCHANGED audit_log
    /\ pc' = [pc EXCEPT ![p] = "login_audit"]
    /\ UNCHANGED <<now, vouchers, users, req, resp, audit_fault, tokens>>

\* The audit call and the answer: 401 for an invalid PIN, 423 when it has
\* locked the account; for the valid PIN the token is generated and sent.
StaffLoginAudit(p) ==
    /\ pc[p] = "login_audit"
    /\ IF req[p].arg = "pin_invalid"
       THEN /\ auditLog(<<StaffLoginEvent("login_failed", req[p].staff, ClientIp)>>)
            /\ resp' = AfterAudit(IF req[p].count >= MaxFailedAttempts
                                  THEN Resp("staff_login", "AccountLocked", 423, NoCode, NULL)
                                  ELSE Resp("staff_login", "InvalidCredentials", 401,
                                            NoCode, NULL))
            /\ UNCHANGED tokens
       ELSE /\ auditLog(<<StaffLoginEvent("login_success", req[p].staff, ClientIp)>>)
            /\ resp' = AfterAudit(Resp("staff_login", "LoggedIn", 200, NoCode, NULL))
            /\ tokens' = IF AuditThrows(audit_fault) THEN tokens
                          ELSE tokens \cup {req[p].staff}
    /\ pc' = [pc EXCEPT ![p] = "idle"]
    /\ req' = [req EXCEPT ![p] = NoReq]
    /\ UNCHANGED <<now, vouchers, users, staff, audit_fault>>

\* The database starts or stops rejecting a statement of auditLog.
AuditFault(fault) ==
    /\ audit_fault # fault
    /\ audit_fault' = fault
    /\ UNCHANGED <<now, vouchers, users, audit_log, pc, req, resp, staff, tokens>>

Init ==
    /\ now = 0
    /\ vouchers = <<>>
    /\ users = <<>>
    /\ audit_log = <<>>
    /\ pc = [p \in Procs |-> "idle"]
    /\ req = [p \in Procs |-> NoReq]
    /\ resp = NoResp
    /\ staff = [s \in Staff |-> NewStaff(IF s \in Managers THEN "admin" ELSE "staff")]
    /\ audit_fault = "none"
    /\ tokens = {}

\* The clock advances.
Tick ==
    /\ now + Hour <= MaxHours * Hour
    /\ now' = now + Hour
    /\ UNCHANGED <<vouchers, users, audit_log, pc, req, resp, staff, audit_fault, tokens>>

\* ----------------------------------------------------------- specifications
\* One step of a handler by request slot p, for the given inputs.
CreateStep(p, owners, types, hours) ==
    \E u \in owners, t \in types, h \in hours, r \in RandomSuffixes :
        CreateVoucher(p, u, t, h, r)

RedeemStep(p, redeemers) ==
    \/ \E c \in Codes, st \in redeemers : RedeemRead(p, c, st)
    \/ RedeemWrite(p)
    \/ RedeemAudit(p)

RedeemLoyaltyStep(p) ==
    \/ RedeemLoyaltyRead(p)
    \/ RedeemLoyaltyWrite(p)

StatusStep(p) ==
    \/ \E i \in 1..MaxVouchers, st \in StatusInputs, m \in Managers : StatusRead(p, i, st, m)
    \/ StatusWrite(p)

\* A signup with marketing consent starts only when the table has room for the
\* welcome voucher.
SignupConsents == {consent \in BOOLEAN : consent => RoomForVoucher}

SignupStep(p) ==
    \/ \E e \in Emails, consent \in SignupConsents : SignupCheck(p, e, consent)
    \/ SignupInsert(p)
    \/ \E r \in RandomSuffixes : SignupReward(p, r)

\* Visits are recorded up to a visit_count of visits; with room, they start
\* only when the table has room for the reward they may create.
VisitUsers(room, visits) ==
    {u \in DOMAIN users : users[u].visit_count < visits /\ (room => RoomForVoucher)}

VisitStep(p, room, visits) ==
    \/ \E u \in VisitUsers(room, visits) : VisitRead(p, u)
    \/ VisitWrite(p)
    \/ \E r \in RandomSuffixes : VisitReward(p, r)

Owners == {NULL} \cup DOMAIN users

\* With one request slot in use, requests are served one at a time: a handler
\* runs to its answer before the next one starts.
OneAtATime == {"req1"}

\* The clock advances by half a day, between requests: a request is served
\* within one reading of the calendar date.
DayTick ==
    /\ \A p \in Procs : pc[p] = "idle"
    /\ now + HalfDay <= MaxHalfDays * HalfDay
    /\ now' = now + HalfDay
    /\ UNCHANGED <<vouchers, users, audit_log, pc, req, resp, staff, audit_fault, tokens>>

\* The table is kept to MaxStaffVouchers staff vouchers: a request that may
\* insert one starts only when there is room for it.
PendingStaffCreates ==
    Cardinality({p \in Procs : pc[p] \in {"issue_create", "override_reset",
                                           "override_check"}})
RoomForStaffVoucher == Len(vouchers) + PendingStaffCreates < MaxStaffVouchers

StaffCallers ==
    {s \in Staff : RoomForStaffVoucher \/ DailyLimitReached(staff[s], Today(now))}

OverrideTargets(m) ==
    {t \in Staff \cup {NULL} : RoomForStaffVoucher \/ ~IsManager(staff[m]) \/ t = NULL}

IssueStep(p) ==
    \/ \E s \in StaffCallers : IssueRead(p, s)
    \/ \E r \in RandomSuffixes : IssueCreate(p, r)
    \/ IssueFlag(p)

OverrideStep(p) ==
    \/ \E m \in Staff : \E t \in OverrideTargets(m) : OverrideRead(p, m, t)
    \/ OverrideReset(p)
    \/ OverrideCheck(p)
    \/ OverrideAudit(p)

\* The clock advances by half an hour.
HalfHourTick ==
    /\ now + HalfHour <= MaxHalfHours * HalfHour
    /\ now' = now + HalfHour
    /\ UNCHANGED <<vouchers, users, audit_log, pc, req, resp, staff, audit_fault, tokens>>

\* Failed logins are recorded up to MaxFailures of them, MaxOtherFailures of
\* which come from another origin than ClientIp or from none.
FailuresLogged(ips) ==
    Cardinality({k \in DOMAIN audit_log : /\ audit_log[k].action = "login_failed"
                                          /\ audit_log[k].ip_address \in ips})

LoginOrigins(failures) ==
    {ip \in Origins : /\ FailuresLogged(Origins) < failures
                      /\ ip # ClientIp => FailuresLogged(Origins \ {ClientIp})
                                              < MaxOtherFailures}

LoginStep(failures) == \E ip \in LoginOrigins(failures) : LoginFailed(ip)

\* The whole engine: requests interleave at their awaited statements.
Next ==
    \/ Tick
    \/ \E p \in Procs :
          \/ CreateStep(p, Owners, CreateTypes, ExpiresInHours)
          \/ RedeemStep(p, Staff)
          \/ RedeemLoyaltyStep(p)
          \/ StatusStep(p)
          \/ SignupStep(p)
          \/ VisitStep(p, TRUE, MaxVisits)
          \/ IssueStep(p)
          \/ OverrideStep(p)

Spec == Init /\ [][Next]_vars

\* Creation and redemption with one request served at a time.
NextSeq ==
    \/ Tick
    \/ \E p \in OneAtATime :
          \/ CreateStep(p, Owners, {"loyalty_reward"}, ExpiresInHours)
          \/ RedeemStep(p, {1})
          \/ RedeemLoyaltyStep(p)
          \/ SignupStep(p)

SpecSeq == Init /\ [][NextSeq]_vars

\* Redemption and status update of vouchers without an owner, interleaved.
NextRedeem ==
    \/ Tick
    \/ \E p \in Procs :
          \/ CreateStep(p, {NULL}, CreateTypes, ExpiresInHours)
          \/ RedeemStep(p, Staff)
          \/ StatusStep(p)

SpecRedeem == Init /\ [][NextRedeem]_vars

\* Voucher creation, interleaved: createVoucher called directly and through
\* createLoyaltyReward.
NextCreate ==
    \/ Tick
    \/ \E p \in Procs :
          \/ CreateStep(p, Owners, CreateTypes, ExpiresInHours)
          \/ SignupStep(p)

SpecCreate == Init /\ [][NextCreate]_vars

\* Every handler that writes the users table, interleaved.  The vouchers are
\* the welcome voucher and the tier rewards; the clock stands still, so none of
\* them expires.
NextLoyalty ==
    \E p \in Procs :
        \/ RedeemStep(p, {1})
        \/ RedeemLoyaltyStep(p)
        \/ SignupStep(p)
        \/ VisitStep(p, FALSE, MaxVisits)

SpecLoyalty == Init /\ [][NextLoyalty]_vars

\* A customer's way through the tiers, one request at a time.
NextTier ==
    \E p \in OneAtATime :
        \/ RedeemStep(p, {1})
        \/ RedeemLoyaltyStep(p)
        \/ SignupStep(p)
        \/ VisitStep(p, FALSE, MaxTierVisits)

SpecTier == Init /\ [][NextTier]_vars

\* Signups and visit recordings alone, interleaved.
NextVisits ==
    \E p \in Procs :
        \/ SignupStep(p)
        \/ VisitStep(p, FALSE, MaxVisits)

SpecVisits == Init /\ [][NextVisits]_vars

\* Staff vouchers and overrides over several days, one request at a time.
NextStaffSeq ==
    \/ DayTick
    \/ \E p \in OneAtATime :
          \/ IssueStep(p)
          \/ OverrideStep(p)

SpecStaffSeq == Init /\ [][NextStaffSeq]_vars

\* Staff vouchers without any override, the requests interleaved.
NextStaffIssue ==
    \/ DayTick
    \/ \E p \in Procs : IssueStep(p)

SpecStaffIssue == Init /\ [][NextStaffIssue]_vars

\* Failed logins over the first hour of a day.
NextLogin ==
    \/ HalfHourTick
    \/ LoginStep(MaxFailures)

SpecLogin == Init /\ [][NextLogin]_vars

\* The operations that call auditLog, one request at a time, while the
\* database rejects statements of auditLog at times.  createVoucher is called
\* by the signup, for the welcome voucher.
NextAudit ==
    \/ \E fault \in AuditFaults \cup {"none"} : AuditFault(fault)
    \/ LoginStep(MaxFaultyLogins)
    \/ \E p \in OneAtATime :
          \/ RedeemStep(p, {1})
          \/ RedeemLoyaltyStep(p)
          \/ SignupStep(p)

SpecAudit == Init /\ [][NextAudit]_vars

\* Staff logins with valid and invalid PINs over the first hour of a day, one
\* request at a time.
StaffLoginsLogged ==
    Cardinality({k \in DOMAIN audit_log :
                    /\ audit_log[k].action \in {"login_failed", "login_success"}
                    /\ audit_log[k].user_id # NULL})

LoginStaff == {1}     \* the staff members who log in
LoginSubjects == {s \in LoginStaff : StaffLoginsLogged < MaxStaffLogins}

StaffLoginStep(p) ==
    \/ \E s \in LoginSubjects, pin_valid \in BOOLEAN, mac \in DeviceMacs :
          StaffLoginRead(p, s, pin_valid, mac)
    \/ StaffLoginWrite(p)
    \/ StaffLoginAudit(p)

NextStaffLogin ==
    \/ HalfHourTick
    \/ \E p \in OneAtATime : StaffLoginStep(p)

SpecStaffLogin == Init /\ [][NextStaffLogin]_vars

\* The routes behind verifyToken, called with the token of a staff member who
\* has logged in, one request at a time: the middleware's SELECT and the
\* handler's first statement follow each other with no other request in
\* between.  The vouchers are the staff vouchers that the requests create; the
\* clock stands still, so no lock runs out.
InitToken ==
    /\ now = 0
    /\ vouchers = <<>>
    /\ users = <<>>
    /\ audit_log = <<AuditEntry("staff", 1, "login_success", NULL, ClientIp, "", 0)>>
    /\ pc = [p \in Procs |-> "idle"]
    /\ req = [p \in Procs |-> NoReq]
    /\ resp = Resp("staff_login", "LoggedIn", 200, NoCode, NULL)
    /\ staff = [s \in Staff |-> NewStaff(IF s \in Managers THEN "admin" ELSE "staff")]
    /\ audit_fault = "none"
    /\ tokens = {1}

VerifiedTokens == {s \in tokens : VerifyTokenPasses(staff[s], now)}
RejectedTokens == tokens \ VerifiedTokens
StaffCodes == {generateVoucherCode("staff_wifi", r) : r \in RandomSuffixes}

\* Requests that may insert a voucher start while the table holds fewer than
\* MaxVouchers.
TokenCallers ==
    {s \in VerifiedTokens :
        Len(vouchers) < MaxVouchers \/ DailyLimitReached(staff[s], Today(now))}
TokenTargets == {t \in Staff \cup {NULL} : Len(vouchers) < MaxVouchers \/ t = NULL}
TokenLogins == {s \in LoginStaff : StaffLoginsLogged < MaxTokenLogins}

TokenStep(p) ==
    \/ \E s \in RejectedTokens : Unauthorized(p, s)
    \/ \E s \in VerifiedTokens, c \in StaffCodes : RedeemRead(p, c, s)
    \/ RedeemWrite(p)
    \/ RedeemAudit(p)
    \/ \E s \in TokenCallers : IssueRead(p, s)
    \/ \E r \in RandomSuffixes : IssueCreate(p, r)
    \/ IssueFlag(p)
    \/ \E m \in VerifiedTokens, t \in TokenTargets : OverrideRead(p, m, t)
    \/ OverrideReset(p)
    \/ OverrideCheck(p)
    \/ OverrideAudit(p)
    \/ \E m \in VerifiedTokens \cap Managers, i \in 1..MaxVouchers,
          st \in StatusInputs : StatusRead(p, i, st, m)
    \/ StatusWrite(p)

\* The logins made while the token is in use are attempts with an invalid PIN.
TokenLoginStep(p) ==
    \/ \E s \in TokenLogins : StaffLoginRead(p, s, FALSE, "")
    \/ StaffLoginWrite(p)
    \/ StaffLoginAudit(p)

NextToken ==
    \E p \in OneAtATime :
        \/ TokenLoginStep(p)
        \/ TokenStep(p)

SpecToken == InitToken /\ [][NextToken]_vars

\* crypto.randomBytes(...).toString('hex').toUpperCase(), for the byte n.
HexDigits == <<"0", "1", "2", "3", "4", "5", "6", "7", "8", "9", "A", "B", "C", "D", "E", "F">>
HexByte(n) == HexDigits[(n \div 16) + 1] \o HexDigits[(n % 16) + 1]

\* A day of redemptions.  Two customers have signed up and MaxRedemptions
\* vouchers were created at 00:00 UTC, the last for the second customer and the
\* others for the first; it is 12:00 UTC, which is after midnight of the same
\* day in every time zone of TimeZoneOffsetHours.
AbuseCustomers == <<"ann@example.com", "bob@example.com">>
AbuseOwner(i) == IF i = MaxRedemptions THEN 2 ELSE 1
AbuseCode(i) == generateVoucherCode("premium_wifi", HexByte(i))
AbuseCodes == {AbuseCode(i) : i \in 1..MaxRedemptions}

InitAbuse ==
    /\ now = HalfDay
    /\ vouchers = [i \in 1..MaxRedemptions |->
                      NewVoucher(AbuseOwner(i), "premium_wifi", AbuseCode(i), HoursPerDay, 0)]
    /\ users = [u \in DOMAIN AbuseCustomers |-> NewUser(AbuseCustomers[u])]
    /\ audit_log = [i \in 1..MaxRedemptions |->
                       AuditEntry("system", NULL, "voucher_created", i, NoIp, "", 0)]
    /\ pc = [p \in Procs |-> "idle"]
    /\ req = [p \in Procs |-> NoReq]
    /\ resp = NoResp
    /\ staff = [s \in Staff |-> NewStaff(IF s \in Managers THEN "admin" ELSE "staff")]
    /\ audit_fault = "none"
    /\ tokens = {}

\* POST /redeem for the codes of the day, by either staff member.
AbuseRedeemStep(p) ==
    \/ \E c \in AbuseCodes, st \in Staff : RedeemRead(p, c, st)
    \/ RedeemWrite(p)
    \/ RedeemAudit(p)

NextAbuse == \E p \in OneAtATime : AbuseRedeemStep(p)

SpecAbuse == InitAbuse /\ [][NextAbuse]_vars

\* The audit log over a year.  The clock advances by half days, and once by a
\* day less than the retention period; failed logins are recorded and the log
\* is cleaned.
AlmostRetention == (RetentionDays - 1) * Day

RetentionTick ==
    /\ \/ /\ (now % AlmostRetention) + HalfDay <= MaxHalfDays * HalfDay
          /\ now' = now + HalfDay
       \/ /\ now < AlmostRetention
          /\ now' = now + AlmostRetention
    /\ UNCHANGED <<vouchers, users, audit_log, pc, req, resp, staff, audit_fault, tokens>>

Cleanups ==
    Cardinality({k \in DOMAIN audit_log : audit_log[k].action = "audit_cleanup"})

CleanupStep == Cleanups < MaxCleanups /\ CleanOldAuditLogs

RetainedLoginStep ==
    FailuresLogged(Origins) < MaxRetainedFailures /\ LoginFailed(ClientIp)

NextCleanup ==
    \/ RetentionTick
    \/ RetainedLoginStep
    \/ CleanupStep

SpecCleanup == Init /\ [][NextCleanup]_vars

\* createVoucher with payloads that encode and payloads that do not.
EncodeStep(p) ==
    \E t \in CreateTypes, h \in ExpiresInHours, r \in RandomSuffixes,
       qr_encodes \in BOOLEAN, barcode_encodes \in BOOLEAN :
        CreateVoucherEncoded(p, NULL, t, h, r, qr_encodes, barcode_encodes)

NextEncode ==
    \/ Tick
    \/ \E p \in OneAtATime : EncodeStep(p)

SpecEncode == Init /\ [][NextEncode]_vars

\* Redemption of welcome vouchers, one request at a time, where the database
\* may reject the statements of updateUserLoyalty.
NextRedeemFaults ==
    \E p \in OneAtATime :
        \/ SignupStep(p)
        \/ RedeemStep(p, Staff)
        \/ RedeemLoyaltyStep(p)
        \/ RedeemLoyaltyThrows(p)

SpecRedeemFaults == Init /\ [][NextRedeemFaults]_vars

\* ------------------------------------------------------------------ properties
\* The redeem calls that have succeeded for voucher id: each one has written
\* one voucher_redeemed row on its return.
Redemptions(id) ==
    Cardinality({k \in DOMAIN audit_log : /\ audit_log[k].action = "voucher_redeemed"
                                          /\ audit_log[k].voucher_id = id})

\* The answer resp was given by this step.
Answered(op) == resp' # resp /\ resp'.op = op

\* C1: with redeem calls made one after another, at most one redeem call
\* succeeds per voucher; once one has succeeded, a redeem call with the code is
\* classified AlreadyRedeemed, none passes the checks again, and the latest
\* answer to a redeem call with that code is the success or AlreadyRedeemed.
C1_RedeemSucceedsOnce ==
    \A i \in DOMAIN vouchers :
        /\ Redemptions(i) <= 1
        /\ Redemptions(i) = 1 =>
              /\ vouchers[i].status = "redeemed"
              /\ RedeemCheck(vouchers, VoucherIdByCode(vouchers, vouchers[i].code), now)
                     = "AlreadyRedeemed"
              /\ \A p \in Procs : pc[p] \in {"redeem_write", "redeem_audit"} => req[p].id # i
              /\ (resp.op = "redeem" /\ resp.code = vouchers[i].code)
                     => resp.outcome \in {"Committed", "AlreadyRedeemed"}

\* A second redeem call with the code of a voucher redeemed once was answered
\* AlreadyRedeemed.
C1_Witness ==
    \E i \in DOMAIN vouchers :
        /\ Redemptions(i) = 1
        /\ resp.op = "redeem" /\ resp.id = i /\ resp.outcome = "AlreadyRedeemed"

\* C2: with redeem calls whose steps interleave, no voucher is committed by two
\* of them: at most one redeem call per voucher returns the committed voucher.
C2_NoDoubleCommit ==
    \A i \in DOMAIN vouchers : Redemptions(i) <= 1

\* C3: redeemed is terminal, and a status update that is answered for a
\* redeemed voucher is answered InvalidTransition and has changed nothing,
\* also when it ran interleaved with the redeem of the voucher.
C3_RedeemedIsTerminal ==
    [][\A i \in DOMAIN vouchers :
          vouchers[i].status = "redeemed" =>
              /\ vouchers'[i].status = "redeemed"
              /\ (Answered("status") /\ resp'.id = i) =>
                    /\ resp'.outcome = "InvalidTransition"
                    /\ vouchers' = vouchers
                    /\ audit_log' = audit_log]_vars

\* What the claim says of a redeem call with the code: the reason it is rejected
\* for, or "None" for a voucher that exists, is active and has not expired.
RedeemReason(code) ==
    IF \A i \in DOMAIN vouchers : vouchers[i].code # code THEN "NotFound"
    ELSE LET v == vouchers[CHOOSE i \in DOMAIN vouchers : vouchers[i].code = code]
         IN CASE v.status = "redeemed" -> "AlreadyRedeemed"
              [] v.status # "redeemed" /\ v.expires_at < now -> "Expired"
              [] v.status = "cancelled" /\ v.expires_at >= now -> "NotActive"
              [] v.status = "active" /\ v.expires_at >= now -> "None"
              [] OTHER -> "Unspecified"

RedeemReasons == {"NotFound", "AlreadyRedeemed", "Expired", "NotActive"}

\* C4: a redeem call is rejected with the one reason the state of the voucher
\* gives (NotFound, AlreadyRedeemed, Expired, NotActive), each answered with a
\* status of its own, and changes no request's place; it goes on to the write,
\* and so to its commit, only for a voucher that exists, is active and has not
\* expired when it is read.
C4_RedeemRejection ==
    [][/\ \A p \in Procs :
             (pc[p] = "idle" /\ (pc'[p] = "redeem_write" \/ Answered("redeem"))) =>
                 \A c \in Codes, st \in Staff :
                     RedeemRead(p, c, st) =>
                         IF RedeemReason(c) = "None"
                         THEN /\ pc'[p] = "redeem_write"
                              /\ vouchers[req'[p].id].code = c
                              /\ resp' = resp
                         ELSE /\ RedeemReason(c) \in RedeemReasons
                              /\ resp'.outcome = RedeemReason(c)
                              /\ resp'.http = RedeemErrorStatus(RedeemReason(c))
                              /\ pc' = pc
       /\ \A a, b \in RedeemReasons :
             /\ a # b => RedeemErrorStatus(a) # RedeemErrorStatus(b)
             /\ RedeemErrorStatus(a) \notin {200, 500}
       /\ \A p \in Procs :
             (pc[p] # "redeem_write" /\ pc'[p] = "redeem_write") =>
                 RedeemReason(vouchers[req'[p].id].code) = "None"
       /\ (Answered("redeem") /\ resp'.outcome = "Committed") =>
             \E p \in Procs : /\ pc[p] = "redeem_audit" /\ pc'[p] = "idle"
                              /\ req[p].id = resp'.id]_vars

\* A redeem call was rejected as Expired for an active voucher past its expiry.
C4_Witness ==
    /\ resp.op = "redeem" /\ resp.outcome = "Expired" /\ resp.http = 410
    /\ resp.id \in DOMAIN vouchers
    /\ vouchers[resp.id].status = "active"
    /\ vouchers[resp.id].expires_at < now

\* The voucher was created with a validity window of 0 hours or less: its
\* expires_at is not later than the time its creation was audited at.
ZeroWindow(id) ==
    \E k \in DOMAIN audit_log :
        /\ audit_log[k].action = "voucher_created"
        /\ audit_log[k].voucher_id = id
        /\ vouchers[id].expires_at <= audit_log[k].created_at

\* C5: no redeem call passes its checks on a voucher created with a validity
\* window of 0 hours, whatever the time of the call: it is answered Expired.
C5_ZeroWindowExpired ==
    [][\A p \in Procs :
          /\ (pc[p] = "idle" /\ pc'[p] = "redeem_write") => ~ZeroWindow(req'[p].id)
          /\ (Answered("redeem") /\ resp'.id \in DOMAIN vouchers /\ ZeroWindow(resp'.id)) =>
                resp'.outcome = "Expired"]_vars

\* lookup(code) on the table vs: the voucher getVoucherByCode returns.
Lookup(vs, code) == vs[VoucherIdByCode(vs, code)]

\* The step inserts a voucher through createVoucher called with window h and
\* code suffix r: directly, or through createLoyaltyReward.
CreatesVoucher(p, t, h, r) ==
    /\ Len(vouchers') = Len(vouchers) + 1
    /\ \/ \E u \in Owners : CreateVoucher(p, u, t, h, r)
       \/ /\ t = "loyalty_reward" /\ h = LoyaltyRewardHours
          /\ SignupReward(p, r) \/ VisitReward(p, r)

\* C6: after every successful createVoucher with a positive validity window, a
\* lookup by the code it returned finds the voucher just inserted, with status
\* active and expires_at later than the current time.
C6_CreateThenLookup ==
    [][Len(vouchers') # Len(vouchers) =>
          \A p \in Procs, t \in CreateTypes, r \in RandomSuffixes,
             h \in ExpiresInHours \cup {LoyaltyRewardHours} :
              (h > 0 /\ CreatesVoucher(p, t, h, r)) =>
                  /\ resp'.code = generateVoucherCode(t, r) /\ resp'.id = Len(vouchers')
                  /\ VoucherIdByCode(vouchers', resp'.code) = Len(vouchers')
                  /\ Lookup(vouchers', resp'.code).status = "active"
                  /\ Lookup(vouchers', resp'.code).expires_at > now']_vars

\* A createVoucher with a positive window has answered, and the lookup of its
\* code finds its voucher, active and not yet expired.
C6_Witness ==
    /\ resp.op = "create" /\ resp.outcome = "Created"
    /\ VoucherIdByCode(vouchers, resp.code) = resp.id
    /\ Lookup(vouchers, resp.code).status = "active"
    /\ Lookup(vouchers, resp.code).expires_at > now

\* C7: no two vouchers have the same code; a createVoucher whose code is in the
\* table fails with the duplicate-code error and changes neither the table nor
\* the audit log.
C7_CodesUnique ==
    [][/\ \A i, j \in DOMAIN vouchers' :
             vouchers'[i].code = vouchers'[j].code => i = j
       /\ Answered("create") =>
             \A p \in Procs, u \in Owners, t \in CreateTypes, h \in ExpiresInHours,
                r \in RandomSuffixes :
                 (/\ \E i \in DOMAIN vouchers : vouchers[i].code = generateVoucherCode(t, r)
                  /\ CreateVoucher(p, u, t, h, r)) =>
                     /\ resp'.outcome = "DuplicateCode"
                     /\ vouchers' = vouchers
                     /\ audit_log' = audit_log]_vars

\* A createVoucher has failed on a code that is in the table, once.
C7_Witness ==
    /\ resp.op = "create" /\ resp.outcome = "DuplicateCode"
    /\ Cardinality({i \in DOMAIN vouchers : vouchers[i].code = resp.code}) = 1

\* The tier table of the claim, and the tier whose threshold is the greatest one
\* not exceeding n.
TierTable == [Bronze |-> 0, Silver |-> 5, Gold |-> 15, Platinum |-> 30]
TierLookup(n) ==
    CHOOSE t \in DOMAIN TierTable :
        /\ TierTable[t] <= n
        /\ \A o \in DOMAIN TierTable : TierTable[o] <= n => TierTable[o] <= TierTable[t]

\* C8: every customer's loyalty_tier is the tier of the table whose threshold is
\* the greatest one not exceeding the customer's visit_count.
C8_TierOfVisitCount ==
    \A u \in DOMAIN users : users[u].loyalty_tier = TierLookup(users[u].visit_count)

\* A customer has reached the Platinum threshold by recorded visits.
C8_Witness ==
    \E u \in DOMAIN users :
        /\ users[u].visit_count = TierTable.Platinum
        /\ users[u].loyalty_tier = "Platinum"

\* The step is the loyalty UPDATE of a redemption by p.
RedemptionUpdatesLoyalty(p) ==
    pc[p] = "redeem_loyalty_write" /\ pc'[p] = "redeem_audit"

\* The redemption by p is past the UPDATE of its voucher.
RedemptionCommitted(p) ==
    pc[p] \in {"redeem_loyalty", "redeem_loyalty_write", "redeem_audit"}

C10_VisitCountNeverDecreases ==
    [][/\ \A u \in DOMAIN users : users'[u].visit_count >= users[u].visit_count
       /\ \A p \in Procs :
             (/\ pc[p] = "redeem_write" /\ pc'[p] # pc[p]
              /\ vouchers[req[p].id].type # "loyalty_reward") =>
                 /\ pc'[p] = "redeem_audit"
                 /\ users' = users]_vars

\* The step is the UPDATE of a visit recording by p.
VisitRecorded(p) == pc[p] = "visit_write" /\ pc'[p] # "visit_write"

\* C11: no visit is lost: the UPDATE of every visit recording leaves the
\* customer's visit_count one greater than the visit_count it replaces, so that k
\* recordings, however they interleave, add k to it.
C11_NoLostVisit ==
    [][\A p \in Procs :
          VisitRecorded(p) =>
              users'[req[p].uid].visit_count = users[req[p].uid].visit_count + 1]_vars

\* The audit entries of the staff WiFi vouchers created for staff member s on
\* the calendar date d.
StaffVouchersOn(s, d) ==
    {k \in DOMAIN audit_log : /\ audit_log[k].action = "voucher_created"
                               /\ audit_log[k].user_type = "staff"
                               /\ audit_log[k].user_id = s
                               /\ vouchers[audit_log[k].voucher_id].type = "staff_wifi"
                               /\ UtcDate(audit_log[k].created_at) = d}

\* The step is the call of issueStaffVoucher by staff member s in slot p, up to
\* its daily check.
IssueCalled(p, s) ==
    /\ pc[p] = "idle"
    /\ pc'[p] = "issue_create" \/ Answered("staff_wifi")
    /\ IssueRead(p, s)

IssueRejected(p) ==
    /\ resp'.outcome = "DailyLimitReached" /\ resp'.http = 409
    /\ vouchers' = vouchers /\ staff' = staff /\ pc' = pc

\* The request answered last was an override for staff member s that succeeded
\* today.
OverriddenLast(s) ==
    /\ resp.op = "override" /\ resp.outcome = "Created"
    /\ \E k \in StaffVouchersOn(s, Today(now)) : audit_log[k].voucher_id = resp.id

\* A voucher was issued to s today and the flag it set has not been reset since.
IssuedAndFlagged(s) == StaffVouchersOn(s, Today(now)) # {} /\ staff[s].daily_voucher_used

C13_OneStaffVoucherPerDay ==
    \A s \in Staff, d \in 0..MaxHalfDays : Cardinality(StaffVouchersOn(s, d)) <= 1

\* C14: a call of issueStaffVoucher by a staff member whose flag is set with a
\* last_voucher_date before today passes the daily check without an override,
\* however few hours have passed since that date.
C14_LimitResetsWithDate ==
    [][\A p \in Procs, s \in Staff :
          (/\ IssueCalled(p, s)
           /\ staff[s].daily_voucher_used
           /\ staff[s].last_voucher_date < Today(now)) =>
              /\ pc'[p] = "issue_create"
              /\ resp' = resp]_vars

\* A staff member was issued vouchers on two consecutive calendar dates less
\* than 24 hours apart, with no override in between.
C14_Witness ==
    /\ \A k \in DOMAIN audit_log : audit_log[k].action # "staff_wifi_override"
    /\ \E s \in Staff, d \in 0..MaxHalfDays :
          \E j \in StaffVouchersOn(s, d), k \in StaffVouchersOn(s, d + 1) :
              /\ audit_log[k].created_at - audit_log[j].created_at < Day
              /\ staff[s].daily_voucher_used /\ staff[s].last_voucher_date = d + 1

\* The step ends the override request of slot p after its reset of the flag.
OverrideEnds(p) ==
    /\ req[p].arg = "override"
    /\ pc[p] \in {"override_check", "issue_create", "issue_flag", "override_audit"}
    /\ pc'[p] = "idle"

\* C15: an override request that has reset the flag does not end without an
\* audit event of the override that names the manager, also when the voucher
\* creation after the reset fails; and only a manager or admin gets as far as
\* the reset.
C15_OverrideAudited ==
    [][\A p \in Procs :
          /\ OverrideEnds(p) =>
                \E k \in (Len(audit_log) + 1)..Len(audit_log') :
                    /\ audit_log'[k].action = "staff_wifi_override"
                    /\ audit_log'[k].user_id = req[p].manager
          /\ (pc[p] = "idle" /\ pc'[p] = "override_reset") =>
                IsManager(staff[req'[p].manager])]_vars

\* C16: auditLog never throws to its caller: while the database rejects the
\* INSERT of auditLog or the SELECT of its alert check, createVoucher, redeem,
\* signup and login give the answer of their own, and the rows they have
\* written stay.
C16_AuditNeverRaises ==
    [][audit_fault # "none" =>
          /\ Len(vouchers') > Len(vouchers) =>
                /\ resp'.outcome = "Created" /\ resp'.http = 201
                /\ VoucherIdByCode(vouchers', resp'.code) = resp'.id
                /\ Lookup(vouchers', resp'.code).status = "active"
          /\ \A p \in Procs :
                /\ (pc[p] = "redeem_audit" /\ pc'[p] = "idle") =>
                      /\ resp'.outcome = "Committed" /\ resp'.http = 200
                      /\ vouchers'[req[p].id].status = "redeemed"
                /\ (/\ pc[p] \in {"signup_insert", "signup_reward"} /\ pc'[p] = "idle"
                    /\ Len(users') > Len(users) \/ Len(vouchers') > Len(vouchers)) =>
                      /\ resp'.op = "signup"
                      /\ resp'.outcome = "Created" /\ resp'.http = 201
                      /\ \E u \in DOMAIN users' : users'[u].email \in Emails
          /\ Answered("login") =>
                resp'.outcome = "InvalidCredentials" /\ resp'.http = 401]_vars

\* A redemption was committed and answered as such while the INSERT of
\* auditLog was rejected: the voucher is redeemed and the log has no event of it.
C16_Witness ==
    /\ audit_fault = "insert"
    /\ resp.op = "redeem" /\ resp.outcome = "Committed"
    /\ vouchers[resp.id].status = "redeemed"
    /\ Redemptions(resp.id) = 0

\* The events auditLog may be called with.
AuditEvents ==
    {LoginFailedEvent(ip) : ip \in Origins}
        \cup {AuditEntry("staff", uid, "voucher_redeemed", 1, ClientIp, "", now) :
                 uid \in {NULL, 1}}
        \cup {AuditEntry("system", NULL, "security_alert", NULL, NoIp, alert, now) :
                 alert \in {"brute_force_attempt", "voucher_abuse"}}
        \cup {AuditEntry("customer", 1, "signup_success", NULL, ClientIp, "", now)}

AuditDepth(event, tzh) ==
    AuditCall(audit_log, event, now, tzh * Hour, MaxAuditDepth - 1).depth

\* C17: whatever the log holds and whatever the event, an auditLog call nests
\* to a depth of at most two: the call for the event and, inside its alert
\* check, the call for a security_alert, whose own alert check raises nothing.
C17_AuditDepthAtMostTwo ==
    \A event \in AuditEvents, tzh \in TimeZoneOffsetHours :
        /\ AuditDepth(event, tzh) <= 2
        /\ event.action = "security_alert" => AuditDepth(event, tzh) = 1

\* The log is such that recording one more failed login raises an alert, whose
\* recording raises nothing.
C17_Witness ==
    \E tzh \in TimeZoneOffsetHours :
        /\ AuditDepth(LoginFailedEvent(ClientIp), tzh) = 2
        /\ Len(AuditLogged(audit_log, LoginFailedEvent(ClientIp), now, tzh * Hour))
               = Len(audit_log) + 2

\* The login_failed events from the origin within the 60 minutes that end at t.
TrailingFailures(log, ip, t) ==
    Cardinality({k \in DOMAIN log : /\ log[k].action = "login_failed"
                                    /\ log[k].ip_address = ip
                                    /\ log[k].created_at > t - Hour})

\* C18: the failed login that brings the failures of its origin within the
\* last 60 minutes to 10 raises one brute_force_attempt alert, and one that
\* brings them to 11 or more raises none.
C18_OneAlertPerRun ==
    [][Len(audit_log') > Len(audit_log) =>
          LET event == audit_log'[Len(audit_log) + 1]
              alerts == Len(audit_log') - Len(audit_log) - 1
              failures == TrailingFailures(audit_log', event.ip_address, now)
          IN (event.action = "login_failed" /\ event.ip_address # NoIp) =>
                 /\ failures = 10 => alerts = 1
                 /\ failures > 10 => alerts = 0]_vars

\* C19: every brute_force_attempt alert in the log follows a login_failed event
\* with an origin, and at least 10 login_failed events from that origin, that
\* one included, were recorded within the 60 minutes before the alert.
C19_AlertOnlyAtThreshold ==
    \A k \in DOMAIN audit_log :
        (/\ audit_log[k].action = "security_alert"
         /\ audit_log[k].alert_type = "brute_force_attempt") =>
            /\ k > 1
            /\ audit_log[k - 1].action = "login_failed"
            /\ audit_log[k - 1].ip_address # NoIp
            /\ TrailingFailures(SubSeq(audit_log, 1, k - 1), audit_log[k - 1].ip_address,
                                audit_log[k].created_at) >= 10

\* An alert was raised with a failure from another origin and one without an
\* origin in the log, neither of which was needed to reach 10.
C19_Witness ==
    /\ \E k \in DOMAIN audit_log : audit_log[k].alert_type = "brute_force_attempt"
    /\ FailuresLogged({ClientIp}) = 10
    /\ FailuresLogged(Origins \ {ClientIp}) = MaxOtherFailures
\* The voucher_redeemed events since local midnight for vouchers of the customer.
RedeemedForCustomer(log, customer, t, tz) ==
    Cardinality({k \in DOMAIN log : /\ log[k].action = "voucher_redeemed"
                                    /\ vouchers[log[k].voucher_id].user_id = customer
                                    /\ log[k].created_at >= TodayStart(t, tz)})

\* C20: the audit call of a committed redemption adds a voucher_abuse alert to
\* the log exactly when the voucher_redeemed events since midnight for vouchers
\* of the customer who owns the redeemed voucher, this one included, are 5 or
\* more.
C20_AbuseAlertPerCustomer ==
    [][\A p \in Procs : (pc[p] = "redeem_audit" /\ pc'[p] = "idle") =>
          LET customer == vouchers[req[p].id].user_id
              alert == \E k \in Len(audit_log) + 1 .. Len(audit_log') :
                           audit_log'[k].alert_type = "voucher_abuse"
          IN \A tzh \in TimeZoneOffsetHours :
                 alert <=> RedeemedForCustomer(audit_log', customer, now, tzh * Hour)
                               >= AbuseThreshold]_vars

IsPrefix(a, b) == Len(a) <= Len(b) /\ SubSeq(b, 1, Len(a)) = a

RECURSIVE IsSubSeq(_, _)
IsSubSeq(a, b) ==
    IF a = <<>> THEN TRUE
    ELSE IF b = <<>> THEN FALSE
    ELSE IF Head(a) = Head(b) THEN IsSubSeq(Tail(a), Tail(b))
    ELSE IsSubSeq(a, Tail(b))

\* The events recorded within the retention window that ends at t.
WithinRetention(log, t) ==
    SelectSeq(log, LAMBDA e : e.created_at >= t - RetentionDays * Day)

\* C21: a step either appends to the audit log, leaving the events it holds as
\* they are, or is a cleanup: the events of the last 365 days are all kept, the
\* events that stay are unchanged and in their order, and an audit_cleanup
\* event is appended.
C21_AppendOnlyButCleanup ==
    [][\/ IsPrefix(audit_log, audit_log')
       \/ /\ audit_log' # <<>>
          /\ audit_log'[Len(audit_log')].action = "audit_cleanup"
          /\ LET kept == SubSeq(audit_log', 1, Len(audit_log') - 1)
             IN /\ IsSubSeq(kept, audit_log)
                /\ WithinRetention(kept, now) = WithinRetention(audit_log, now)]_vars

\* C23: once the redeem call that wrote a voucher's status as redeemed has
\* ended, the log holds one voucher_redeemed event for the voucher, also when
\* the loyalty update of the call failed.
C23_RedeemedIsAudited ==
    \A i \in DOMAIN vouchers :
        (/\ vouchers[i].status = "redeemed"
         /\ \A p \in Procs : req[p].id # i) => Redemptions(i) = 1

\* C24: a redeem call for a code that no voucher has, or whose voucher is
\* redeemed, expired or not active, changes nothing but the answer: the
\* vouchers, the customers, the staff rows and the audit log stay as they are
\* and no request moves.
C24_RejectedRedeemFrame ==
    [][\A p \in Procs :
          (pc[p] = "idle" /\ (pc' # pc \/ Answered("redeem"))) =>
              \A c \in Codes, st \in Staff :
                  (RedeemRead(p, c, st) /\ RedeemReason(c) \in RedeemReasons) =>
                      /\ resp'.outcome = RedeemReason(c)
                      /\ UNCHANGED <<now, vouchers, users, staff, audit_log, pc, req>>]_vars

\* A redeem call for a code that no voucher has was rejected while a customer,
\* the voucher of that customer and their audit events were there to change.
C24_Witness ==
    /\ resp.op = "redeem" /\ resp.outcome = "NotFound"
    /\ users # <<>> /\ vouchers # <<>> /\ audit_log # <<>>
    /\ \A i \in DOMAIN vouchers : vouchers[i].code # resp.code
\* C25: a voucher has redeemed_by and redeemed_at set exactly when its status
\* is redeemed, and once they are set no step changes them, whichever requests
\* run at the same time.
C25_RedeemedByWriteOnce ==
    [][\A i \in DOMAIN vouchers :
          /\ (vouchers'[i].status = "redeemed") <=> (vouchers'[i].redeemed_by # NULL)
          /\ vouchers[i].redeemed_by # NULL =>
                /\ vouchers'[i].redeemed_by = vouchers[i].redeemed_by
                /\ vouchers'[i].redeemed_at = vouchers[i].redeemed_at]_vars

\* C26: a createVoucher call whose QR code or barcode cannot be encoded ends in
\* an error for its caller, inserts no voucher and appends no audit event.
C26_EncodingFailureReported ==
    [][Answered("create") =>
          \A qr_encodes \in BOOLEAN, barcode_encodes \in BOOLEAN, p \in Procs,
             t \in CreateTypes, h \in ExpiresInHours, r \in RandomSuffixes :
              (/\ ~(qr_encodes /\ barcode_encodes)
               /\ generateVoucherCode(t, r) = resp'.code
               /\ CreateVoucherEncoded(p, NULL, t, h, r, qr_encodes, barcode_encodes)) =>
                  /\ resp'.outcome = "EncodingFailed" /\ resp'.http = 500
                  /\ UNCHANGED <<vouchers, audit_log>>]_vars

\* An encoding failure was answered for a code the table does not hold, with
\* another voucher in the table.
C26_Witness ==
    /\ resp.op = "create" /\ resp.outcome = "EncodingFailed"
    /\ vouchers # <<>>
    /\ \A i \in DOMAIN vouchers : vouchers[i].code # resp.code
\* C27: createVoucher fails for a duplicate code only when every code the
\* generator can give for the type is in the table; a collision with one code
\* while another is free ends in a created voucher.
C27_RetryOnCollision ==
    [][(Answered("create") /\ resp'.outcome = "DuplicateCode") =>
          \A r \in RandomSuffixes :
              UniqueViolation(vouchers, <<resp'.code[1], r>>)]_vars
LoginAttemptBegins(p, s) ==
    /\ pc[p] = "idle"
    /\ \/ pc'[p] = "login_write" /\ req'[p].staff = s
       \/ /\ Len(audit_log') > Len(audit_log)
          /\ audit_log'[Len(audit_log) + 1].user_type = "staff"
          /\ audit_log'[Len(audit_log) + 1].user_id = s

\* The UPDATE of a login attempt on the account s, for a valid or an invalid
\* PIN.
LoginWrites(p, s, arg) ==
    /\ pc[p] = "login_write" /\ pc'[p] = "login_audit"
    /\ req[p].staff = s /\ req[p].arg = arg

\* C22: with logins made one after another, every invalid PIN adds one to
\* failed_attempts, and the attempt that brings it to 3 sets locked_until 30
\* minutes ahead and is answered 423; while locked_until is in the future, a
\* login attempt on the account, whatever its PIN, is answered 423 at once,
\* issues no token and leaves the staff row as it is.
C22_StaffPinLockout ==
    [][\A p \in OneAtATime, s \in LoginStaff :
          /\ LoginWrites(p, s, "pin_invalid") =>
                /\ staff'[s].failed_attempts = staff[s].failed_attempts + 1
                /\ (staff'[s].failed_attempts >= 3) =>
                       staff'[s].locked_until = now + 30 * 60
                /\ (staff'[s].failed_attempts < 3) => staff'[s].locked_until = NULL
          /\ (/\ pc[p] = "login_audit" /\ pc'[p] = "idle"
              /\ req[p].staff = s /\ req[p].arg = "pin_invalid") =>
                /\ resp'.http = IF staff[s].failed_attempts >= 3 THEN 423 ELSE 401
                /\ tokens' = tokens
          /\ (/\ staff[s].locked_until # NULL /\ staff[s].locked_until > now
              /\ LoginAttemptBegins(p, s)) =>
                /\ pc'[p] = "idle"
                /\ resp'.op = "staff_login" /\ resp'.http = 423
                /\ UNCHANGED <<staff, tokens>>]_vars

\* Three invalid PINs have locked the account, a later attempt on it was
\* rejected as locked, and no token has been issued.
C22_Witness ==
    /\ resp.op = "staff_login" /\ resp.outcome = "AccountLocked"
    /\ \E s \in LoginStaff :
          /\ staff[s].failed_attempts = 3
          /\ staff[s].locked_until = 30 * 60 /\ now < staff[s].locked_until
          /\ Len(audit_log) >= 4
          /\ \A k \in DOMAIN audit_log : audit_log[k].action # "login_success"
    /\ tokens = {}
    /\ \A p \in Procs : pc[p] = "idle"

\* C29: failed_attempts goes down only in the UPDATE of a login with the valid
\* PIN, which sets it to 0; the passing of time leaves it as it is, and an
\* invalid PIN on an account whose lock has run out sets locked_until 30
\* minutes ahead again.
C29_ResetOnlyBySuccess ==
    [][\A s \in LoginStaff :
          /\ staff'[s].failed_attempts < staff[s].failed_attempts =>
                /\ \E p \in OneAtATime : LoginWrites(p, s, "pin_valid")
                /\ staff'[s].failed_attempts = 0
          /\ \A p \in OneAtATime :
                (LoginWrites(p, s, "pin_invalid") /\ staff[s].locked_until # NULL) =>
                    /\ staff'[s].failed_attempts > 3
                    /\ staff'[s].locked_until = now + 30 * 60]_vars

\* A lock has run out and one more invalid PIN has locked the account again,
\* which was answered 423.
C29_Witness ==
    /\ resp.op = "staff_login" /\ resp.outcome = "AccountLocked"
    /\ \E s \in LoginStaff :
          /\ staff[s].failed_attempts = 4
          /\ staff[s].locked_until = now + 30 * 60
          /\ now > 0
    /\ tokens = {}
    /\ \A p \in Procs : pc[p] = "idle"

\* The routes behind verifyToken and the states their handlers pass through.
TokenRoutes == {"redeem", "staff_wifi", "override", "status"}
TokenHandlerStates ==
    {"redeem_write", "redeem_loyalty", "redeem_loyalty_write", "redeem_audit",
     "issue_create", "issue_flag", "override_reset", "override_check",
     "override_audit", "status_write"}

\* C30: while every staff member who holds a token is locked (locked_until in
\* the future) and no request is in flight, no step enters a handler of the
\* routes behind verifyToken or answers for one, and no step changes the
\* vouchers, the customers or the staff rows; the audit log grows by failed
\* logins only.
C30_LockedTokenRejected ==
    [][(/\ tokens # {}
        /\ \A s \in tokens : staff[s].locked_until # NULL /\ staff[s].locked_until > now
        /\ \A p \in Procs : pc[p] = "idle") =>
          /\ \A p \in Procs : pc'[p] \notin TokenHandlerStates
          /\ resp' # resp => resp'.op \notin TokenRoutes
          /\ UNCHANGED <<vouchers, users, staff>>
          /\ \A k \in DOMAIN audit_log' :
                k > Len(audit_log) => audit_log'[k].action = "login_failed"]_vars

\* The token was used to issue a voucher, three invalid PINs have locked the
\* account since, and a request with the token has been answered 401.
C30_Witness ==
    /\ resp.op = "verify_token" /\ resp.http = 401
    /\ vouchers # <<>>
    /\ \E s \in tokens :
          /\ staff[s].failed_attempts = 3
          /\ staff[s].locked_until > now
          /\ staff[s].daily_voucher_used
====
